---- MODULE Spec2Model ----
(***************************************************************************)
(* Model of pyanalyze/checker.py: the Checker's type-object cache          *)
(* (make_type_object / _build_type_object / get_additional_bases) and its  *)
(* stack of assumed compatibilities (can_assume_compatibility /            *)
(* assume_compatibility).                                                  *)
(***************************************************************************)
EXTENDS Integers, Sequences, FiniteSets, TLC

VARIABLES
    type_object_cache,        \* Checker.type_object_cache: dict key -> TypeObject
    providers,                \* options.get_value_for(AdditionalBaseProviders)
    py310,                    \* sys.version_info >= (3, 10)
    nbuilds,                  \* number of _build_type_object calls so far
    invoked,                  \* history: _build_type_object calls per key
    completed,                \* history: _build_type_object returns per key
    returned,                 \* history: the objects make_type_object returned per key
    last,                     \* the last call of the public API and its outcome
    assumed_compatibilities,  \* Checker.assumed_compatibilities: list of pairs
    frames,                   \* `pair` of every assume_compatibility generator suspended at yield
    exc,                      \* the exception in flight, "none" when there is none
    misused,                  \* history: times the list was changed other than by enter / LIFO exit
    everPushed,               \* history: pairs ever appended to the list
    outerList,                \* history: the list as it was outside every scope
    strict,                   \* history: no misuse since the outermost open scope was entered
    lastExit                  \* the last run of the finally clause of assume_compatibility

cacheVars == <<type_object_cache, providers, py310, nbuilds, invoked, completed, returned>>
stackVars == <<assumed_compatibilities, frames, exc, misused, everPushed, outerList, strict,
               lastExit>>
vars == <<type_object_cache, providers, py310, nbuilds, invoked, completed, returned, last,
          assumed_compatibilities, frames, exc, misused, everPushed, outerList, strict, lastExit>>

-----------------------------------------------------------------------------
(* Bounds *)

\* total number of _build_type_object calls explored
MaxBuilds == 2
\* length of the provider list
MaxProviders == 2
\* depth of nested assume_compatibility scopes
MaxDepth == 2
\* length of the assumed_compatibilities list
MaxStack == 3
\* number of uses of the list that break the stack discipline
MaxMisuse == 1

-----------------------------------------------------------------------------
(* The universe of keys: Union[type, super, str] *)

Key(kind, name, oid) == [kind |-> kind, name |-> name, oid |-> oid]

\* classes: one object per class
ConcreteTypes == {Key("type", n, 1) : n \in {"T1", "T2", "T3", "U"}}
\* synthetic types: two str objects with the same characters, and another name
SyntheticTypes == {Key("str", "s1", 1), Key("str", "s1", 2), Key("str", "s2", 1)}
\* two super objects for the same (type, through-type) pair
SuperProxies == {Key("super", "super(T3)", 1), Key("super", "super(T3)", 2)}

\* further classes that are protocols at run time only: T4 declares a method,
\* T5 has an empty body, T6 annotates a housekeeping name, and reading
\* T7.__annotations__ or T8.__dict__ raises
ProtocolClasses == {Key("type", n, 1) : n \in {"T4", "T5", "T6", "T7", "T8"}}

Keys == ConcreteTypes \cup SyntheticTypes \cup SuperProxies \cup ProtocolClasses

\* the keys the cache is exercised with: every class, two equal str objects
\* and a super object
CacheKeys == ConcreteTypes \cup {Key("str", "s1", 1), Key("str", "s1", 2),
                                 Key("super", "super(T3)", 1)}

\* hash(typ) raises: a class whose metaclass defines __eq__ without __hash__
KeyHashRaises(typ) == typ.kind = "type" /\ typ.name = "U"

\* typ == other, for two keys of the dict: classes and super objects compare by
\* identity, str objects by their characters
KeyEq(typ, other) ==
    /\ typ.kind = other.kind
    /\ typ.name = other.name
    /\ (typ.kind = "str" \/ typ.oid = other.oid)

-----------------------------------------------------------------------------
(* TypeObject *)

TypeObject(id, typ, base_classes, is_protocol, protocol_members) ==
    [id |-> id, typ |-> typ, base_classes |-> base_classes,
     is_protocol |-> is_protocol, protocol_members |-> protocol_members]

NoKey == Key("none", "none", 0)
NoObject == TypeObject(0, NoKey, {}, FALSE, {})

-----------------------------------------------------------------------------
(* Collaborators the Checker calls: the typeshed finder, the typing-name  *)
(* helpers and the runtime's view of the classes of the universe.         *)

Value(typed, typ) == [typed |-> typed, typ |-> typ]

\* ts_finder.get_bases_recursively(typ): Values, not all of them TypedValues
TsBasesRecursively(name) ==
    CASE name = "T1" -> {Value(TRUE, "T1"), Value(TRUE, "Protocol"), Value(FALSE, "Any")}
      [] name = "U"  -> {Value(TRUE, "U"), Value(TRUE, "Protocol")}
      [] name = "s1" -> {Value(TRUE, "s1"), Value(TRUE, "s0"), Value(TRUE, "Protocol"),
                         Value(FALSE, "Any")}
      [] name = "s2" -> {Value(TRUE, "s2"), Value(TRUE, "object")}
      [] OTHER -> {}

\* ts_finder.is_protocol(typ), asked of classes only
TsIsProtocol(name) == name \in {"T1", "U"}

\* ts_finder.get_all_attributes(base)
TsAllAttributes(base) ==
    CASE base = "T1" -> {"foo"}
      [] base = "U"  -> {"close"}
      [] base = "s1" -> {"read"}
      [] base = "s0" -> {"write"}
      [] base = "s2" -> {"plain"}
      [] base = "Any" -> {"anything"}
      [] base = "object" -> {"__init__", "__eq__"}
      [] OTHER -> {}

\* is_typing_name(obj, name)
IsTypingName(obj, name) == obj = name /\ name \in {"Protocol", "Generic"}

\* is_instance_of_typing_name(typ, "_ProtocolMeta")
IsInstanceOfProtocolMeta(name) == name \in {"T1", "T2", "T3", "T4", "T5", "T6", "T7", "T8"}

\* safe_getattr(typ, "_is_protocol", False)
SafeGetattrIsProtocol(name) == name \in {"T1", "T2", "T4", "T5", "T6", "T7", "T8"}

\* get_mro(typ)
GetMro(name) ==
    CASE name = "T1" -> <<"T1", "Protocol", "Generic", "object">>
      [] name = "T2" -> <<"T2", "Base2", "Protocol", "Generic", "object">>
      [] name = "T3" -> <<"T3", "T2", "Base2", "Protocol", "Generic", "object">>
      [] name \in {"T4", "T5", "T6", "T7", "T8"} -> <<name, "Protocol", "Generic", "object">>
      [] OTHER -> <<name, "object">>

\* set(typ.__dict__)
TypeDict(name) ==
    CASE name = "T1" -> {"rt_only", "__module__", "_is_protocol"}
      [] name = "T2" -> {"meth", "__doc__", "_is_protocol", "__annotations__"}
      [] name = "Base2" -> {"base_meth", "__abstractmethods__", "_abc_impl"}
      [] name = "T3" -> {"impl", "__module__"}
      [] name = "T4" -> {"ping", "__module__", "__parameters__", "_is_protocol"}
      [] name = "T5" -> {"__module__", "__doc__", "__dict__", "__weakref__", "__parameters__",
                         "__subclasshook__", "__init__", "__abstractmethods__", "_abc_impl",
                         "_is_protocol"}
      [] name = "T6" -> {"size", "__module__", "__annotations__", "_is_protocol"}
      [] name = "T7" -> {"later", "__module__", "__annotations__", "_is_protocol"}
      [] name = "object" -> {"__init__", "__eq__", "__doc__"}
      [] name = "Protocol" -> {"__class_getitem__", "_is_protocol"}
      [] name = "Generic" -> {"__class_getitem__"}
      [] OTHER -> {}

\* the annotations a class body declares
OwnAnnotations(name) ==
    CASE name = "T2" -> {"field"}
      [] name = "T6" -> {"size", "__origin__"}
      [] name = "T7" -> {"later"}
      [] OTHER -> {}

\* hasattr(typ, "__annotations__"): the attribute is looked up along the MRO
HasAnnotations(name) == \E i \in 1..Len(GetMro(name)) : OwnAnnotations(GetMro(name)[i]) # {}

\* set(typ.__annotations__) where the attribute exists
TypeAnnotations(name) == OwnAnnotations(name)

-----------------------------------------------------------------------------
(* AdditionalBaseProviders: the functions configured as base providers *)

Providers == {"P1", "P2"}

ProviderResult(raises, bases) == [raises |-> raises, bases |-> bases]

\* provider(typ): a set of bases, or an exception
Provider(p, typ) ==
    CASE p = "P1" -> ProviderResult(FALSE, IF typ.name \in {"T3", "super(T3)"} THEN {"T1"} ELSE {})
      [] p = "P2" -> ProviderResult(typ.name \in {"T2", "U"},
                                    IF typ.name \in {"T3", "T1"} THEN {"T2"} ELSE {})

ProviderLists == UNION {[1..n -> Providers] : n \in 0..MaxProviders}

-----------------------------------------------------------------------------
(* Checker.get_additional_bases *)

RECURSIVE GetAdditionalBasesFrom(_, _, _, _)
\* the loop of get_additional_bases from provider i on, bases being the set so far
GetAdditionalBasesFrom(ps, i, typ, bases) ==
    IF i > Len(ps) THEN ProviderResult(FALSE, bases)
    ELSE LET r == Provider(ps[i], typ)
         IN  IF r.raises THEN ProviderResult(TRUE, {})
             ELSE GetAdditionalBasesFrom(ps, i + 1, typ, bases \cup r.bases)

\* a loop that assigns (bases = provider(typ)) where the code unions
GetAdditionalBasesLastOnly(ps, typ) ==
    IF \E i \in 1..Len(ps) : Provider(ps[i], typ).raises THEN ProviderResult(TRUE, {})
    ELSE IF ps = <<>> THEN ProviderResult(FALSE, {})
    ELSE ProviderResult(FALSE, Provider(ps[Len(ps)], typ).bases)

GetAdditionalBases(ps, typ) == GetAdditionalBasesFrom(ps, 1, typ, {})

-----------------------------------------------------------------------------
(* Checker._get_typeshed_bases, Checker._get_protocol_members *)

GetTypeshedBases(name) == {base.typ : base \in {b \in TsBasesRecursively(name) : b.typed}}

GetProtocolMembers(bases) == UNION {TsAllAttributes(base) : base \in bases}

-----------------------------------------------------------------------------
(* _extract_protocol_members *)

EXCLUDED_PROTOCOL_MEMBERS ==
    {"__abstractmethods__", "__annotations__", "__dict__", "__doc__", "__init__",
     "__new__", "__module__", "__parameters__", "__subclasshook__", "__weakref__",
     "_abc_impl", "_abc_cache", "_is_protocol", "__next_in_mro__",
     "_abc_generic_negative_cache_version", "__orig_bases__", "__args__",
     "_abc_registry", "__extra__", "_abc_generic_negative_cache", "__origin__",
     "__tree_hash__", "_gorg", "_is_runtime_protocol"}

\* typ.__dict__ raises: a metaclass whose attribute lookup is broken
DictReadRaises(name) == name = "T8"

\* typ.__annotations__ raises: annotations that are evaluated when they are read
\* and name something undefined, which only newer interpreters do
AnnotationsReadRaises(name, v310) == name = "T7" /\ v310

ExtractResult(raises, members) == [raises |-> raises, members |-> members]

\* an extraction that also reads object, Generic and Protocol
ExtractProtocolMembersNoSkip(name, v310) ==
    IF DictReadRaises(name) THEN ExtractResult(TRUE, {})
    ELSE LET members == TypeDict(name) \ EXCLUDED_PROTOCOL_MEMBERS
         IN  IF v310 \/ HasAnnotations(name)
             THEN IF AnnotationsReadRaises(name, v310) THEN ExtractResult(TRUE, {})
                  ELSE ExtractResult(FALSE, members \cup TypeAnnotations(name))
             ELSE ExtractResult(FALSE, members)

\* the set returned, or the exception of an attribute read
ExtractProtocolMembers(name, v310) ==
    IF name = "object" \/ IsTypingName(name, "Generic") \/ IsTypingName(name, "Protocol")
    THEN ExtractResult(FALSE, {})
    ELSE IF DictReadRaises(name) THEN ExtractResult(TRUE, {})
    ELSE LET members == TypeDict(name) \ EXCLUDED_PROTOCOL_MEMBERS
         IN  IF v310 \/ HasAnnotations(name)
             THEN IF AnnotationsReadRaises(name, v310) THEN ExtractResult(TRUE, {})
                  ELSE ExtractResult(FALSE, members \cup TypeAnnotations(name))
             ELSE ExtractResult(FALSE, members)

\* the loop over get_mro(typ) in _build_type_object: the union of the sets, or
\* the exception of the first base whose extraction raises
ExtractFromBases(bases, v310) ==
    ExtractResult(\E i \in 1..Len(bases) : ExtractProtocolMembers(bases[i], v310).raises,
                  UNION {ExtractProtocolMembers(bases[i], v310).members : i \in 1..Len(bases)})

-----------------------------------------------------------------------------
(* Checker._build_type_object *)

BuildResult(exception, obj) ==
    [raises |-> exception # "none", exc |-> exception, obj |-> obj]

\* a builder that asks the runtime before it asks the stubs
BuildTypeObjectRuntimeFirst(ps, v310, typ, id) ==
    IF typ.kind = "str"
    THEN LET bases == GetTypeshedBases(typ.name)
             is_protocol == \E base \in bases : IsTypingName(base, "Protocol")
             protocol_members == IF is_protocol THEN GetProtocolMembers(bases) ELSE {}
         IN  BuildResult("none", TypeObject(id, typ, bases, is_protocol, protocol_members))
    ELSE LET r == GetAdditionalBases(ps, typ)
         IN  IF r.raises THEN BuildResult("ProviderError", NoObject)
             ELSE IF typ.kind = "super"
             THEN BuildResult("none", TypeObject(id, typ, r.bases, FALSE, {}))
             ELSE IF IsInstanceOfProtocolMeta(typ.name) /\ SafeGetattrIsProtocol(typ.name)
             THEN LET members == ExtractFromBases(GetMro(typ.name), v310)
                  IN  IF members.raises THEN BuildResult("AttributeReadError", NoObject)
                      ELSE BuildResult("none", TypeObject(id, typ, r.bases, TRUE,
                                                          members.members))
             ELSE IF TsIsProtocol(typ.name)
             THEN BuildResult("none", TypeObject(id, typ, r.bases, TRUE,
                                                GetProtocolMembers(GetTypeshedBases(typ.name))))
             ELSE BuildResult("none", TypeObject(id, typ, r.bases, FALSE, {}))

\* a builder that collects the members of every class made by the protocol
\* metaclass, whether or not the class is itself a protocol
BuildTypeObjectAnyMetaclass(ps, v310, typ, id) ==
    IF typ.kind = "str"
    THEN LET bases == GetTypeshedBases(typ.name)
             is_protocol == \E base \in bases : IsTypingName(base, "Protocol")
             protocol_members == IF is_protocol THEN GetProtocolMembers(bases) ELSE {}
         IN  BuildResult("none", TypeObject(id, typ, bases, is_protocol, protocol_members))
    ELSE LET r == GetAdditionalBases(ps, typ)
         IN  IF r.raises THEN BuildResult("ProviderError", NoObject)
             ELSE IF typ.kind = "super"
             THEN BuildResult("none", TypeObject(id, typ, r.bases, FALSE, {}))
             ELSE IF TsIsProtocol(typ.name)
             THEN BuildResult("none", TypeObject(id, typ, r.bases, TRUE,
                                                GetProtocolMembers(GetTypeshedBases(typ.name))))
             ELSE IF IsInstanceOfProtocolMeta(typ.name)
             THEN LET members == ExtractFromBases(GetMro(typ.name), v310)
                  IN  IF members.raises THEN BuildResult("AttributeReadError", NoObject)
                      ELSE BuildResult("none", TypeObject(id, typ, r.bases,
                                                          SafeGetattrIsProtocol(typ.name),
                                                          members.members))
             ELSE BuildResult("none", TypeObject(id, typ, r.bases, FALSE, {}))

BuildTypeObject(ps, v310, typ, id) ==
    IF typ.kind = "str"
    THEN LET bases == GetTypeshedBases(typ.name)
             is_protocol == \E base \in bases : IsTypingName(base, "Protocol")
             protocol_members == IF is_protocol THEN GetProtocolMembers(bases) ELSE {}
         IN  BuildResult("none", TypeObject(id, typ, bases, is_protocol, protocol_members))
    ELSE IF typ.kind = "super"
    THEN LET r == GetAdditionalBases(ps, typ)
         IN  IF r.raises THEN BuildResult("ProviderError", NoObject)
             ELSE BuildResult("none", TypeObject(id, typ, r.bases, FALSE, {}))
    ELSE LET r == GetAdditionalBases(ps, typ)
             additional_bases == r.bases
         IN  IF r.raises THEN BuildResult("ProviderError", NoObject)
             ELSE IF TsIsProtocol(typ.name)
             THEN LET bases == GetTypeshedBases(typ.name)
                  IN  BuildResult("none", TypeObject(id, typ, additional_bases, TRUE,
                                                    GetProtocolMembers(bases)))
             ELSE IF IsInstanceOfProtocolMeta(typ.name) /\ SafeGetattrIsProtocol(typ.name)
             THEN LET bases == GetMro(typ.name)
                      members == ExtractFromBases(bases, v310)
                  IN  IF members.raises THEN BuildResult("AttributeReadError", NoObject)
                      ELSE BuildResult("none", TypeObject(id, typ, additional_bases, TRUE,
                                                          members.members))
             ELSE BuildResult("none", TypeObject(id, typ, additional_bases, FALSE, {}))

-----------------------------------------------------------------------------
(* Checker.make_type_object *)

\* typ in self.type_object_cache: hash(typ), then == against the stored keys
InCache(cache, typ) ==
    [raises |-> KeyHashRaises(typ),
     value  |-> \E other \in DOMAIN cache : KeyEq(typ, other)]

\* self.type_object_cache[typ]
CacheGet(cache, typ) == cache[CHOOSE other \in DOMAIN cache : KeyEq(typ, other)]

\* a store that also makes entries for the ancestors of the class
CacheSetEager(cache, typ, type_object) ==
    LET ancestors == IF typ.kind # "type" THEN {}
                     ELSE {k \in Keys \ DOMAIN cache :
                               /\ k.kind = "type" /\ k # typ
                               /\ \E i \in 1..Len(GetMro(typ.name)) :
                                      GetMro(typ.name)[i] = k.name}
    IN  [other \in DOMAIN cache \cup {typ} \cup ancestors |->
            IF other = typ THEN type_object
            ELSE IF other \in ancestors THEN TypeObject(1, other, {}, FALSE, {})
            ELSE cache[other]]

\* self.type_object_cache[typ] = type_object
CacheSet(cache, typ, type_object) ==
    [other \in DOMAIN cache \cup {typ} |-> IF other = typ THEN type_object ELSE cache[other]]

MakeResult(exception, obj, cache, built) ==
    [exc |-> exception, obj |-> obj, cache |-> cache, built |-> built]

\* a make_type_object that never stores what it builds
MakeTypeObjectNoStore(cache, ps, v310, typ, id) ==
    LET build == BuildTypeObject(ps, v310, typ, id)
    IN  IF ~InCache(cache, typ).raises /\ InCache(cache, typ).value
        THEN MakeResult("none", CacheGet(cache, typ), cache, FALSE)
        ELSE MakeResult(build.exc, build.obj, cache, TRUE)

\* a make_type_object without the try/except around the membership test
MakeTypeObjectPropagates(cache, ps, v310, typ, id) ==
    LET build == BuildTypeObject(ps, v310, typ, id)
    IN  IF InCache(cache, typ).raises
        THEN MakeResult("HashError", NoObject, cache, FALSE)
        ELSE IF InCache(cache, typ).value
        THEN MakeResult("none", CacheGet(cache, typ), cache, FALSE)
        ELSE IF build.raises
        THEN MakeResult(build.exc, NoObject, cache, TRUE)
        ELSE MakeResult("none", build.obj, CacheSet(cache, typ, build.obj), TRUE)

\* a make_type_object that rebuilds an entry whose bases the providers no
\* longer give
MakeTypeObjectInvalidates(cache, ps, v310, typ, id) ==
    LET build == BuildTypeObject(ps, v310, typ, id)
        hit == ~InCache(cache, typ).raises /\ InCache(cache, typ).value
        stale == hit /\ ~build.raises
                     /\ CacheGet(cache, typ).base_classes # build.obj.base_classes
    IN  IF InCache(cache, typ).raises
        THEN MakeResult(build.exc, build.obj, cache, TRUE)
        ELSE IF hit /\ ~stale
        THEN MakeResult("none", CacheGet(cache, typ), cache, FALSE)
        ELSE IF build.raises
        THEN MakeResult(build.exc, NoObject, cache, TRUE)
        ELSE MakeResult("none", build.obj,
                        [other \in DOMAIN cache \cup {typ} |->
                            IF KeyEq(typ, other) \/ other = typ THEN build.obj
                            ELSE cache[other]], TRUE)

\* a cache that answers a failed build with a plain descriptor and stores it
MakeTypeObjectSwallows(cache, ps, v310, typ, id) ==
    LET in_cache == InCache(cache, typ)
        build == BuildTypeObject(ps, v310, typ, id)
        plain == TypeObject(id, typ, {}, FALSE, {})
    IN  IF in_cache.raises
        THEN MakeResult("none", IF build.raises THEN plain ELSE build.obj, cache, TRUE)
        ELSE IF in_cache.value
        THEN MakeResult("none", CacheGet(cache, typ), cache, FALSE)
        ELSE IF build.raises
        THEN MakeResult("none", plain, CacheSet(cache, typ, plain), TRUE)
        ELSE MakeResult("none", build.obj, CacheSet(cache, typ, build.obj), TRUE)

\* the exception, the object returned, the cache afterwards, and whether
\* _build_type_object was called; (typ, id) is the identity of the object built
MakeTypeObject(cache, ps, v310, typ, id) ==
    LET in_cache == InCache(cache, typ)
        build == BuildTypeObject(ps, v310, typ, id)
    IN  IF in_cache.raises
        THEN MakeResult(build.exc, build.obj, cache, TRUE)
        ELSE IF in_cache.value
        THEN MakeResult("none", CacheGet(cache, typ), cache, FALSE)
        ELSE IF build.raises
        THEN MakeResult(build.exc, NoObject, cache, TRUE)
        ELSE MakeResult("none", build.obj, CacheSet(cache, typ, build.obj), TRUE)


-----------------------------------------------------------------------------
(* Checker.can_assume_compatibility, Checker.assume_compatibility *)

\* the TypeObjects the compatibility checks are about, distinct under ==
Descs == {"A", "B"}
Pairs == Descs \X Descs
Pair(left, right) == <<left, right>>
NoPair == Pair("none", "none")

RECURSIVE ListContains(_, _, _)
\* x in list, scanning from index i
ListContains(list, i, x) ==
    IF i > Len(list) THEN FALSE
    ELSE IF list[i] = x THEN TRUE
    ELSE ListContains(list, i + 1, x)

\* a lookup that only looks at the innermost assumption
CanAssumeTopOnly(list, left, right) ==
    list # <<>> /\ list[Len(list)] = Pair(left, right)

\* a lookup that ignores the direction of the pair
CanAssumeUnordered(list, left, right) ==
    ListContains(list, 1, Pair(left, right)) \/ ListContains(list, 1, Pair(right, left))

CanAssumeCompatibility(list, left, right) == ListContains(list, 1, Pair(left, right))

\* an entry that notes the pair the wrong way round
EnterScopeSwapped(list, left, right) == [list |-> Append(list, Pair(right, left)),
                                         pair |-> Pair(left, right)]

\* the lines of assume_compatibility before the yield
EnterScope(list, left, right) == [list |-> Append(list, Pair(left, right)),
                                  pair |-> Pair(left, right)]

\* an exit without try/finally: the pop is skipped when the body raised
ExitScopeNoFinally(list, pair, incoming) ==
    IF incoming # "none"
    THEN [list |-> list, popped |-> NoPair, outcome |-> incoming]
    ELSE IF list = <<>>
    THEN [list |-> list, popped |-> NoPair, outcome |-> "IndexError"]
    ELSE [list |-> SubSeq(list, 1, Len(list) - 1), popped |-> list[Len(list)],
          outcome |-> IF pair = list[Len(list)] THEN incoming ELSE "AssertionError"]

\* an exit without the assertion
ExitScopeNoAssert(list, pair, incoming) ==
    IF list = <<>>
    THEN [list |-> list, popped |-> NoPair, outcome |-> "IndexError"]
    ELSE [list |-> SubSeq(list, 1, Len(list) - 1), popped |-> list[Len(list)],
          outcome |-> incoming]

\* an exit that withdraws the assumption altogether: every entry equal to the
\* pair of the scope is removed
ExitScopeRemoveAll(list, pair, incoming) ==
    IF list = <<>>
    THEN [list |-> list, popped |-> NoPair, outcome |-> "IndexError"]
    ELSE LET new_pair == list[Len(list)]
         IN  [list |-> SelectSeq(list, LAMBDA e : e # pair),
              popped |-> new_pair,
              outcome |-> IF pair = new_pair THEN incoming ELSE "AssertionError"]

\* the finally clause of assume_compatibility, for the generator whose local is
\* pair, incoming being the exception thrown into it ("none": the body returned)
ExitScope(list, pair, incoming) ==
    IF list = <<>>
    THEN [list |-> list, popped |-> NoPair, outcome |-> "IndexError"]
    ELSE LET new_pair == list[Len(list)]
         IN  [list |-> SubSeq(list, 1, Len(list) - 1),
              popped |-> new_pair,
              outcome |-> IF pair = new_pair THEN incoming ELSE "AssertionError"]

RemoveAt(seq, i) == SubSeq(seq, 1, i - 1) \o SubSeq(seq, i + 1, Len(seq))

-----------------------------------------------------------------------------
(* The state after construction, and the calls of the public API *)

\* a call of make_type_object or get_additional_bases and what it gave;
\* built: _build_type_object ran in it
Call(op, typ, exception, obj, bases, built) ==
    [op |-> op, typ |-> typ, exc |-> exception, obj |-> obj, bases |-> bases,
     built |-> built, pair |-> NoPair, answer |-> FALSE]

NoCall == Call("none", NoKey, "none", NoObject, {}, FALSE)

\* a call of can_assume_compatibility and its answer
Query(pair, answer) ==
    [op |-> "can_assume_compatibility", typ |-> NoKey, exc |-> "none", obj |-> NoObject,
     bases |-> {}, built |-> FALSE, pair |-> pair, answer |-> answer]

\* no finally clause has run since the list last changed otherwise
NoExit == [ran |-> FALSE, pair |-> NoPair, popped |-> NoPair,
           incoming |-> "none", outcome |-> "none"]

InitCache ==
    /\ type_object_cache = [typ \in {} |-> NoObject]
    /\ providers \in ProviderLists
    /\ py310 \in BOOLEAN
    /\ nbuilds = 0
    /\ invoked = [typ \in Keys |-> 0]
    /\ completed = [typ \in Keys |-> 0]
    /\ returned = [typ \in Keys |-> {}]
    /\ last = NoCall

InitStack ==
    /\ assumed_compatibilities = <<>>
    /\ frames = <<>>
    /\ exc = "none"
    /\ misused = 0
    /\ everPushed = {}
    /\ outerList = <<>>
    /\ strict = TRUE
    /\ lastExit = NoExit

Init == InitCache /\ InitStack

\* checker.make_type_object(typ)
Resolve(typ) ==
    LET r == MakeTypeObject(type_object_cache, providers, py310, typ, invoked[typ] + 1)
    IN  /\ r.built => nbuilds < MaxBuilds
        /\ type_object_cache' = r.cache
        /\ nbuilds' = IF r.built THEN nbuilds + 1 ELSE nbuilds
        /\ invoked' = IF r.built THEN [invoked EXCEPT ![typ] = @ + 1] ELSE invoked
        /\ completed' = IF r.built /\ r.exc = "none"
                        THEN [completed EXCEPT ![typ] = @ + 1] ELSE completed
        /\ returned' = IF r.exc = "none"
                       THEN [returned EXCEPT ![typ] = @ \cup {r.obj}] ELSE returned
        /\ last' = Call("resolve", typ, r.exc, r.obj, {}, r.built)
        /\ UNCHANGED <<providers, py310>>
        /\ UNCHANGED stackVars

\* checker.get_additional_bases(typ)
AdditionalBases(typ) ==
    LET r == GetAdditionalBases(providers, typ)
    IN  /\ typ.kind # "str"
        /\ last' = Call("additional_bases", typ,
                        IF r.raises THEN "ProviderError" ELSE "none", NoObject, r.bases,
                        FALSE)
        /\ UNCHANGED cacheVars
        /\ UNCHANGED stackVars

\* the embedding system replaces the list of configured providers
Reconfigure(ps) ==
    /\ ps # providers
    /\ providers' = ps
    /\ last' = NoCall
    /\ UNCHANGED <<type_object_cache, py310, nbuilds, invoked, completed, returned>>
    /\ UNCHANGED stackVars

NextCache ==
    \/ \E typ \in CacheKeys : Resolve(typ)
    \/ \E typ \in CacheKeys : AdditionalBases(typ)
    \/ \E ps \in ProviderLists : Reconfigure(ps)

SpecCache == Init /\ [][NextCache]_vars

\* calls of make_type_object alone, for every key
NextBuilder == \E typ \in Keys : Resolve(typ)

SpecBuilder == Init /\ [][NextBuilder]_vars

\* a query that uses up the assumption it finds
IsAssumedConsuming(left, right) ==
    LET answer == CanAssumeCompatibility(assumed_compatibilities, left, right)
    IN  /\ exc = "none"
        /\ last' = Query(Pair(left, right), answer)
        /\ assumed_compatibilities' =
               IF answer THEN SelectSeq(assumed_compatibilities,
                                        LAMBDA e : e # Pair(left, right))
               ELSE assumed_compatibilities
        /\ UNCHANGED <<frames, exc, misused, everPushed, outerList, strict, lastExit>>
        /\ UNCHANGED cacheVars

\* checker.can_assume_compatibility(left, right)
IsAssumed(left, right) ==
    /\ exc = "none"
    /\ last' = Query(Pair(left, right),
                     CanAssumeCompatibility(assumed_compatibilities, left, right))
    /\ UNCHANGED cacheVars
    /\ UNCHANGED stackVars

\* with checker.assume_compatibility(left, right): runs up to the yield
Enter(left, right) ==
    LET r == EnterScope(assumed_compatibilities, left, right)
    IN  /\ exc = "none"
        /\ Len(frames) < MaxDepth
        /\ Len(assumed_compatibilities) < MaxStack
        /\ assumed_compatibilities' = r.list
        /\ frames' = Append(frames, r.pair)
        /\ everPushed' = everPushed \cup {r.pair}
        /\ outerList' = IF frames = <<>> THEN assumed_compatibilities ELSE outerList
        /\ strict' = IF frames = <<>> THEN TRUE ELSE strict
        /\ lastExit' = NoExit
        /\ last' = NoCall
        /\ UNCHANGED <<exc, misused>>
        /\ UNCHANGED cacheVars

\* the finally clause of generator i runs with the exception incoming
RunExit(i, incoming) ==
    LET r == ExitScope(assumed_compatibilities, frames[i], incoming)
    IN  /\ assumed_compatibilities' = r.list
        /\ frames' = RemoveAt(frames, i)
        /\ exc' = r.outcome
        /\ lastExit' = [ran |-> TRUE, pair |-> frames[i], popped |-> r.popped,
                        incoming |-> incoming, outcome |-> r.outcome]

\* the body of the innermost with block returns
ExitNormal ==
    /\ exc = "none"
    /\ frames # <<>>
    /\ RunExit(Len(frames), "none")
    /\ last' = NoCall
    /\ UNCHANGED <<misused, everPushed, outerList, strict>>
    /\ UNCHANGED cacheVars

\* the nested work inside the innermost with block raises
Raise ==
    /\ exc = "none"
    /\ frames # <<>>
    /\ exc' = "Exception"
    /\ lastExit' = NoExit
    /\ last' = NoCall
    /\ UNCHANGED <<assumed_compatibilities, frames, misused, everPushed, outerList, strict>>
    /\ UNCHANGED cacheVars

\* the exception in flight leaves the innermost with block
Unwind ==
    /\ exc # "none"
    /\ frames # <<>>
    /\ RunExit(Len(frames), exc)
    /\ last' = NoCall
    /\ UNCHANGED <<misused, everPushed, outerList, strict>>
    /\ UNCHANGED cacheVars

\* an except clause around the with block that was left handles the exception
Catch ==
    /\ exc # "none"
    /\ exc' = "none"
    /\ last' = NoCall
    /\ UNCHANGED <<assumed_compatibilities, frames, misused, everPushed, outerList, strict,
                   lastExit>>
    /\ UNCHANGED cacheVars

\* misuse: a scope other than the innermost one is left first
ExitOutOfOrder(i) ==
    /\ exc = "none"
    /\ misused < MaxMisuse
    /\ i \in 1..(Len(frames) - 1)
    /\ RunExit(i, "none")
    /\ misused' = misused + 1
    /\ strict' = FALSE
    /\ last' = NoCall
    /\ UNCHANGED <<everPushed, outerList>>
    /\ UNCHANGED cacheVars

\* misuse: checker.assumed_compatibilities.append(pair) outside assume_compatibility
RawAppend(pair) ==
    /\ exc = "none"
    /\ misused < MaxMisuse
    /\ Len(assumed_compatibilities) < MaxStack
    /\ assumed_compatibilities' = Append(assumed_compatibilities, pair)
    /\ everPushed' = everPushed \cup {pair}
    /\ misused' = misused + 1
    /\ outerList' = IF frames = <<>> THEN assumed_compatibilities' ELSE outerList
    /\ strict' = (frames = <<>> /\ strict)
    /\ lastExit' = NoExit
    /\ last' = NoCall
    /\ UNCHANGED <<frames, exc>>
    /\ UNCHANGED cacheVars

\* misuse: checker.assumed_compatibilities.pop() outside assume_compatibility
RawPop ==
    /\ exc = "none"
    /\ misused < MaxMisuse
    /\ assumed_compatibilities # <<>>
    /\ assumed_compatibilities' = SubSeq(assumed_compatibilities, 1,
                                         Len(assumed_compatibilities) - 1)
    /\ misused' = misused + 1
    /\ outerList' = IF frames = <<>> THEN assumed_compatibilities' ELSE outerList
    /\ strict' = (frames = <<>> /\ strict)
    /\ lastExit' = NoExit
    /\ last' = NoCall
    /\ UNCHANGED <<frames, exc, everPushed>>
    /\ UNCHANGED cacheVars

NextStack ==
    \/ \E left \in Descs, right \in Descs : IsAssumed(left, right)
    \/ \E left \in Descs, right \in Descs : Enter(left, right)
    \/ ExitNormal
    \/ Raise
    \/ Unwind
    \/ Catch
    \/ \E i \in 1..MaxDepth : ExitOutOfOrder(i)
    \/ \E pair \in Pairs : RawAppend(pair)
    \/ RawPop

\* one configuration of the cache side, which the stack operations never read
InitOneConfig == Init /\ providers = <<>> /\ py310

SpecStack == InitOneConfig /\ [][NextStack]_vars

\* one checker with providers configured, used as intended: calls of the cache
\* API in between and inside the scopes of assume_compatibility
FrameKeys == {Key("type", "T3", 1), Key("type", "U", 1), Key("str", "s1", 1),
              Key("super", "super(T3)", 1)}

InitFrame == Init /\ providers = <<"P1", "P2">> /\ py310

NextFrame ==
    \/ \E typ \in FrameKeys : Resolve(typ)
    \/ \E typ \in FrameKeys : AdditionalBases(typ)
    \/ \E left \in Descs, right \in Descs : IsAssumed(left, right)
    \/ \E left \in Descs, right \in Descs : Enter(left, right)
    \/ ExitNormal
    \/ Raise
    \/ Unwind
    \/ Catch

SpecFrame == InitFrame /\ [][NextFrame]_vars

Next == NextCache \/ NextStack

Spec == Init /\ [][Next]_vars

-----------------------------------------------------------------------------
(* Properties of the assumption stack *)

OpenScope(pair) == \E i \in 1..Len(frames) : frames[i] = pair

\* C2 as stated: with the list changed only by properly nested scopes,
\* can_assume_compatibility(A, B) is true inside every open scope of (A, B), and
\* false once a scope of (A, B) has exited.
C2_AsStated ==
    misused = 0 =>
        /\ \A i \in 1..Len(frames) :
              CanAssumeCompatibility(assumed_compatibilities, frames[i][1], frames[i][2])
        /\ lastExit.ran =>
              ~CanAssumeCompatibility(assumed_compatibilities,
                                      lastExit.pair[1], lastExit.pair[2])

\* C2 (amended): with the list changed only by properly nested scopes,
\* can_assume_compatibility(A, B) is true exactly while some scope of (A, B) is
\* open: true inside the scope and every scope nested in it, and after the exit
\* false unless an enclosing scope of the same pair is still open.
C2_TrueWhileOpen ==
    misused = 0 =>
        \A left \in Descs, right \in Descs :
            CanAssumeCompatibility(assumed_compatibilities, left, right)
                <=> OpenScope(Pair(left, right))

\* inside a scope of another pair nested in the scope of (A, B), the question
\* about (A, B) was just answered with true
C2_Witness ==
    /\ misused = 0
    /\ Len(frames) = 2
    /\ frames[2] # frames[1]
    /\ last.op = "can_assume_compatibility"
    /\ last.pair = frames[1]
    /\ last.answer

\* C3: can_assume_compatibility(left, right) is true exactly when the ordered
\* pair (left, right) is an element of the list; while (B, A) has never been
\* appended it is false for (B, A), whatever was done with (A, B).
C3_OrderedPair ==
    /\ \A left \in Descs, right \in Descs :
          CanAssumeCompatibility(assumed_compatibilities, left, right)
              <=> \E i \in 1..Len(assumed_compatibilities) :
                      /\ assumed_compatibilities[i][1] = left
                      /\ assumed_compatibilities[i][2] = right
    /\ \A left \in Descs, right \in Descs :
          (left # right /\ Pair(left, right) \in everPushed
                        /\ Pair(right, left) \notin everPushed)
              => ~CanAssumeCompatibility(assumed_compatibilities, right, left)
    /\ last.op = "can_assume_compatibility" =>
          (last.answer <=> \E i \in 1..Len(assumed_compatibilities) :
                               assumed_compatibilities[i] = last.pair)

\* (A, B) is on the list, (B, A) never was, and the question about (B, A) was
\* just answered with false
C3_Witness ==
    /\ last.op = "can_assume_compatibility"
    /\ ~last.answer
    /\ last.pair[1] # last.pair[2]
    /\ Pair(last.pair[2], last.pair[1]) \in everPushed
    /\ last.pair \notin everPushed
    /\ CanAssumeCompatibility(assumed_compatibilities, last.pair[2], last.pair[1])

\* C4: when every scope of a properly nested sequence has exited, the list is
\* what it was before the outermost scope was entered, also when the nested
\* work raised.
C4_StackBalance ==
    (strict /\ frames = <<>>) => assumed_compatibilities = outerList

\* the outermost scope was left by an exception, over a list that was not empty
C4_Witness ==
    /\ strict
    /\ frames = <<>>
    /\ lastExit.ran
    /\ lastExit.incoming = "Exception"
    /\ exc = "Exception"
    /\ outerList # <<>>
    /\ assumed_compatibilities = outerList

\* C5: under strict nesting the list holds exactly the pairs of the open
\* scopes, in the order they were entered; every exit, normal or by an
\* exception, pops the pair its own scope appended, and raises nothing of its
\* own.
C5_ExitPopsOwnPair ==
    misused = 0 =>
        /\ assumed_compatibilities = frames
        /\ lastExit.ran =>
              /\ lastExit.popped = lastExit.pair
              /\ lastExit.outcome = lastExit.incoming

\* an inner scope was left by an exception and popped its own pair
C5_Witness ==
    /\ misused = 0
    /\ Len(frames) = 1
    /\ lastExit.ran
    /\ lastExit.incoming = "Exception"
    /\ lastExit.popped = lastExit.pair
    /\ lastExit.pair # frames[1]

\* C6: an exit that pops a pair other than the one its scope appended raises
\* AssertionError instead of returning.
C6_MismatchIsFatal ==
    (lastExit.ran /\ lastExit.popped # NoPair /\ lastExit.popped # lastExit.pair)
        => lastExit.outcome = "AssertionError"

\* a body that returned normally, an exit that popped another pair
C6_Witness ==
    /\ lastExit.ran
    /\ lastExit.incoming = "none"
    /\ lastExit.popped # NoPair
    /\ lastExit.popped # lastExit.pair
    /\ exc = "AssertionError"

-----------------------------------------------------------------------------
(* Properties of the type-object cache *)

\* C1 as stated: for every key, all calls of make_type_object(typ) return one
\* object and _build_type_object is called at most once.
C1_AsStated ==
    \A typ \in Keys : Cardinality(returned[typ]) <= 1 /\ invoked[typ] <= 1

\* C1 (amended): for every key whose membership test in the cache succeeds,
\* all calls of make_type_object with that key or a key equal to it return one
\* object, and _build_type_object returns at most once for it.
C1_CacheIdentity ==
    \A typ \in Keys : ~KeyHashRaises(typ) =>
        /\ completed[typ] <= 1
        /\ \A other \in Keys : KeyEq(typ, other) =>
              Cardinality(returned[typ] \cup returned[other]) <= 1

\* a second call for a key returned the object the first call built
C1_Witness ==
    /\ last.op = "resolve"
    /\ ~last.built
    /\ ~KeyHashRaises(last.typ)
    /\ completed[last.typ] = 1
    /\ returned[last.typ] = {last.obj}

\* the stubs mark the key as a protocol
AncestorSourceMarks(typ) ==
    \/ typ.kind = "type" /\ TsIsProtocol(typ.name)
    \/ typ.kind = "str" /\ \E v \in TsBasesRecursively(typ.name) :
                               v.typed /\ IsTypingName(v.typ, "Protocol")

\* the union of the attribute names the stubs give for the ancestors of the key
StubMembers(typ) ==
    UNION {TsAllAttributes(v.typ) : v \in {w \in TsBasesRecursively(typ.name) : w.typed}}

\* what inspecting the class at run time gives
RuntimeSaysProtocol(typ) ==
    typ.kind = "type" /\ IsInstanceOfProtocolMeta(typ.name) /\ SafeGetattrIsProtocol(typ.name)

\* C7: every object built for a key the stubs mark as a protocol, stored or
\* returned, has is_protocol set and the members the stubs give for its
\* ancestors, whatever the class looks like at run time.
C7_ProtocolPrecedence ==
    /\ \A typ \in DOMAIN type_object_cache : AncestorSourceMarks(typ) =>
          /\ type_object_cache[typ].is_protocol
          /\ type_object_cache[typ].protocol_members = StubMembers(typ)
    /\ (last.op = "resolve" /\ last.exc = "none" /\ AncestorSourceMarks(last.typ)) =>
          /\ last.obj.is_protocol
          /\ last.obj.protocol_members = StubMembers(last.typ)

\* a class that is a protocol for the stubs and, with other members, at run
\* time was resolved
C7_Witness ==
    /\ last.op = "resolve"
    /\ last.exc = "none"
    /\ AncestorSourceMarks(last.typ)
    /\ RuntimeSaysProtocol(last.typ)
    /\ last.obj.protocol_members = StubMembers(last.typ)
    /\ last.obj.protocol_members #
          ExtractFromBases(GetMro(last.typ.name), py310).members

\* the union of what the configured providers give for typ
ProvidedBases(ps, typ) == UNION {Provider(ps[i], typ).bases : i \in 1..Len(ps)}

SomeProviderRaises(ps, typ) == \E i \in 1..Len(ps) : Provider(ps[i], typ).raises

\* C8: get_additional_bases(typ) is the set union of provider(typ) over the
\* configured providers (where none of them raises), so neither their order nor
\* a provider configured twice changes it.
C8_VirtualBaseUnion ==
    /\ \A typ \in Keys :
          LET r == GetAdditionalBases(providers, typ)
          IN  /\ r.raises <=> SomeProviderRaises(providers, typ)
              /\ ~r.raises => r.bases = ProvidedBases(providers, typ)
    /\ (last.op = "additional_bases" /\ last.exc = "none") =>
          last.bases = ProvidedBases(providers, last.typ)

\* two providers gave one base each and the call returned both
C8_Witness ==
    /\ last.op = "additional_bases"
    /\ last.exc = "none"
    /\ Len(providers) = 2
    /\ Provider(providers[1], last.typ).bases # {}
    /\ Provider(providers[2], last.typ).bases # {}
    /\ Provider(providers[1], last.typ).bases # Provider(providers[2], last.typ).bases
    /\ Cardinality(last.bases) = 2

\* C9: a call of make_type_object whose membership test raises does not pass
\* that exception on; it builds an object, returns it when the build returns,
\* and leaves the cache as it was.
C9_FallbackBypassesCache ==
    [][\A typ \in {k \in Keys : KeyHashRaises(k)} : Resolve(typ) =>
          /\ type_object_cache' = type_object_cache
          /\ last'.exc # "HashError"
          /\ last'.built
          /\ ~SomeProviderRaises(providers, typ) =>
                /\ last'.exc = "none"
                /\ last'.obj.typ = typ
                /\ last'.obj \notin returned[typ]
                /\ \A other \in DOMAIN type_object_cache :
                      type_object_cache[other] # last'.obj]_vars

\* the unhashable key was resolved a second time: a second object, no entry
C9_Witness ==
    /\ last.op = "resolve"
    /\ KeyHashRaises(last.typ)
    /\ last.exc = "none"
    /\ last.built
    /\ Cardinality(returned[last.typ]) = 2
    /\ \A other \in DOMAIN type_object_cache : ~KeyEq(last.typ, other)

\* C10: an entry of the cache is never removed or replaced, and a call for a
\* stored key returns the stored object without building, also when the
\* providers now give other bases for the key.
C10_NoInvalidation ==
    [][/\ \A typ \in DOMAIN type_object_cache :
              /\ typ \in DOMAIN type_object_cache'
              /\ type_object_cache'[typ] = type_object_cache[typ]
       /\ \A other \in DOMAIN type_object_cache :
              \A typ \in {k \in Keys : KeyEq(k, other)} : Resolve(typ) =>
                  /\ last'.obj = type_object_cache[other]
                  /\ last'.exc = "none"
                  /\ nbuilds' = nbuilds]_vars

\* a call returned the stored object although the providers now give other bases
C10_Witness ==
    /\ last.op = "resolve"
    /\ ~last.built
    /\ last.typ \in DOMAIN type_object_cache
    /\ last.obj = type_object_cache[last.typ]
    /\ ~SomeProviderRaises(providers, last.typ)
    /\ last.obj.base_classes # ProvidedBases(providers, last.typ)

\* the key is stored: make_type_object returns the entry and asks no provider
Stored(cache, typ) == ~InCache(cache, typ).raises /\ InCache(cache, typ).value

\* C11: when a configured provider raises for a key, get_additional_bases
\* raises to its caller and leaves the cache alone; make_type_object for a key
\* that is not stored raises to its caller too, stores nothing, and a later
\* call for the key runs the builder again.
C11_ProviderFailurePropagates ==
    [][LET typ == last'.typ
       IN  (last'.op # "none" /\ typ.kind # "str" /\ SomeProviderRaises(providers, typ)) =>
               /\ AdditionalBases(typ) =>
                      /\ last'.exc = "ProviderError"
                      /\ type_object_cache' = type_object_cache
               /\ (Resolve(typ) /\ ~Stored(type_object_cache, typ)) =>
                      /\ last'.exc = "ProviderError"
                      /\ last'.built
                      /\ type_object_cache' = type_object_cache
                      /\ MakeTypeObject(type_object_cache', providers', py310', typ,
                                        invoked'[typ] + 1).built]_vars

\* a second call for a key whose provider raises ran the builder again, raised
\* again, and the key is still not stored
C11_Witness ==
    /\ last.op = "resolve"
    /\ last.exc = "ProviderError"
    /\ last.built
    /\ ~KeyHashRaises(last.typ)
    /\ invoked[last.typ] = 2
    /\ completed[last.typ] = 0
    /\ last.typ \notin DOMAIN type_object_cache

\* every object that make_type_object returned or that the cache holds
Descriptors ==
    UNION {returned[typ] : typ \in Keys}
        \cup {type_object_cache[typ] : typ \in DOMAIN type_object_cache}

\* C12: an object returned by make_type_object or held by the cache, whatever
\* the kind of its key, has protocol members only if it is a protocol; a
\* protocol without members is allowed.
C12_MembersOnlyIfProtocol ==
    \A obj \in Descriptors : obj.protocol_members # {} => obj.is_protocol

\* a protocol without members was returned and stored, next to an object with a
\* key of another kind that is no protocol
C12_Witness ==
    /\ last.op = "resolve"
    /\ last.exc = "none"
    /\ last.typ.kind = "type"
    /\ last.obj.is_protocol
    /\ last.obj.protocol_members = {}
    /\ type_object_cache[last.typ] = last.obj
    /\ \E obj \in Descriptors :
           obj.typ.kind # "type" /\ ~obj.is_protocol /\ obj.protocol_members = {}

\* the class is found to be a protocol by looking at it at run time: the stubs
\* do not mark it, its metaclass is the protocol metaclass and its flag is set
RuntimeProtocol(typ) == RuntimeSaysProtocol(typ) /\ ~TsIsProtocol(typ.name)

\* the ancestors of the class are object, Generic and Protocol only
OnlyMarkerAncestors(name) ==
    \A i \in 2..Len(GetMro(name)) : GetMro(name)[i] \in {"object", "Generic", "Protocol"}

\* the names the class body itself declares that _extract_protocol_members keeps
OwnNames(name) == (TypeDict(name) \ EXCLUDED_PROTOCOL_MEMBERS) \cup OwnAnnotations(name)

\* C13 as stated: a run-time protocol whose only ancestors are object, Generic
\* and Protocol gets an object with no protocol members.
C13_AsStated ==
    \A obj \in Descriptors :
        (RuntimeProtocol(obj.typ) /\ OnlyMarkerAncestors(obj.typ.name)) =>
            obj.protocol_members = {}

\* C13: for a run-time protocol whose only ancestors are object, Generic and
\* Protocol, the ancestors give no names: the protocol members are exactly the
\* names the class itself declares, and none when it declares none.
C13_OnlyOwnMembers ==
    \A obj \in Descriptors :
        (RuntimeProtocol(obj.typ) /\ OnlyMarkerAncestors(obj.typ.name)) =>
            /\ obj.is_protocol
            /\ obj.protocol_members = OwnNames(obj.typ.name)

\* such a protocol with an empty body was resolved: its dictionary holds only
\* housekeeping names and the object has no members, although Protocol and
\* object have names of their own
C13_Witness ==
    /\ last.op = "resolve"
    /\ last.exc = "none"
    /\ RuntimeProtocol(last.typ)
    /\ OnlyMarkerAncestors(last.typ.name)
    /\ TypeDict(last.typ.name) # {}
    /\ TypeDict("object") \ EXCLUDED_PROTOCOL_MEMBERS # {}
    /\ last.obj.protocol_members = {}

\* C14: leaving a scope removes exactly one entry of the list, the last one;
\* while the API is used as intended, a pair is assumed after the exit exactly
\* when a scope for it is still open, so a pair entered twice stays assumed
\* after the inner exit and stops being assumed only after the outer one.
C14_DuplicateStackDiscipline ==
    [][(Len(frames') < Len(frames) /\ assumed_compatibilities # <<>>) =>
           /\ assumed_compatibilities' =
                  SubSeq(assumed_compatibilities, 1, Len(assumed_compatibilities) - 1)
           /\ misused' = 0 =>
                  \A left \in Descs, right \in Descs :
                      CanAssumeCompatibility(assumed_compatibilities', left, right)
                          <=> \E i \in 1..Len(frames') : frames'[i] = Pair(left, right)]_vars

\* a pair was entered twice, the inner scope was left, and the query for the
\* pair is answered with yes from the one entry that remains
C14_Witness ==
    /\ last.op = "can_assume_compatibility"
    /\ last.answer
    /\ misused = 0
    /\ lastExit.ran
    /\ lastExit.pair = last.pair
    /\ lastExit.popped = last.pair
    /\ frames = <<last.pair>>
    /\ assumed_compatibilities = <<last.pair>>

\* the equality the cache is meant to use: the same object for a class, the
\* same characters for a str, the same class and through-class for a super object
StructurallyEqual(typ, other) ==
    /\ typ.kind = other.kind
    /\ typ.name = other.name
    /\ typ.kind = "type" => typ.oid = other.oid

\* C15: among hashable keys that are equal in that sense, at most one build
\* has completed and every call returned the one object that was stored.
C15_AsStated ==
    \A typ \in Keys, other \in Keys :
        (StructurallyEqual(typ, other) /\ ~KeyHashRaises(typ)) =>
            /\ completed[typ] + (IF other = typ THEN 0 ELSE completed[other]) <= 1
            /\ Cardinality(returned[typ] \cup returned[other]) <= 1

\* C16: the protocol members of a run-time protocol hold no name of
\* EXCLUDED_PROTOCOL_MEMBERS, whether the name comes from a class dictionary
\* or from the annotations of a class.
C16_AsStated ==
    \A obj \in Descriptors :
        RuntimeProtocol(obj.typ) => obj.protocol_members \cap EXCLUDED_PROTOCOL_MEMBERS = {}

\* C17: a call of make_type_object for a class never ends with the exception
\* of an attribute read (the protocol flag, __dict__, __annotations__), on
\* either side of the version test: it returns an object.
C17_AsStated ==
    (last.op = "resolve" /\ last.typ.kind = "type") => last.exc # "AttributeReadError"

\* C18: every entry of the cache sits under the key its object names, the key
\* is hashable and was passed to make_type_object, exactly one build for it
\* completed, and the object is the one that build made and the call returned;
\* nothing else is stored, such as the ancestors met during a build.
C18_CacheConsistency ==
    \A typ \in DOMAIN type_object_cache :
        LET obj == type_object_cache[typ]
        IN  /\ obj.typ = typ
            /\ ~KeyHashRaises(typ)
            /\ invoked[typ] >= 1
            /\ completed[typ] = 1
            /\ obj.id \in 1..invoked[typ]
            /\ obj \in returned[typ]
            /\ \E ps \in ProviderLists :
                   BuildTypeObject(ps, py310, typ, obj.id) = BuildResult("none", obj)

\* a class is stored whose ancestor was met during its build and was itself
\* passed to make_type_object, where its build failed: the ancestor has no entry
C18_Witness ==
    \E typ \in DOMAIN type_object_cache : \E other \in Keys :
        /\ other # typ
        /\ other.kind = "type"
        /\ \E i \in 2..Len(GetMro(typ.name)) : GetMro(typ.name)[i] = other.name
        /\ invoked[other] >= 1
        /\ completed[other] = 0
        /\ other \notin DOMAIN type_object_cache
        /\ type_object_cache[typ].typ = typ

\* C19: a call of make_type_object or get_additional_bases leaves the list of
\* assumptions as it was; a call of get_additional_bases leaves the cache as it
\* was; a call of can_assume_compatibility leaves both as they were; entering
\* or leaving a scope of assume_compatibility leaves the cache as it was.
C19_FrameConditions ==
    [][/\ last'.op \in {"resolve", "additional_bases"} =>
              assumed_compatibilities' = assumed_compatibilities
       /\ last'.op = "additional_bases" => type_object_cache' = type_object_cache
       /\ last'.op = "can_assume_compatibility" =>
              /\ assumed_compatibilities' = assumed_compatibilities
              /\ type_object_cache' = type_object_cache
       /\ frames' # frames => type_object_cache' = type_object_cache]_vars

\* inside an open scope, with an entry in the cache, a pair was found assumed
C19_Witness ==
    /\ last.op = "can_assume_compatibility"
    /\ last.answer
    /\ frames # <<>>
    /\ assumed_compatibilities = frames
    /\ DOMAIN type_object_cache # {}
    /\ nbuilds = MaxBuilds

====
